---- MODULE Spec2Model ----
(***************************************************************************)
(* The session relay and tool-call mediator of src/src/server.ts: every    *)
(* accepted client WebSocket (ws) is paired with one upstream WebSocket    *)
(* (geminiWs); frames are relayed in both directions and submit_form tool  *)
(* calls found in upstream text frames are executed through                *)
(* formHandler.submit (src/src/form.ts).  The form handler of form.ts is    *)
(* also modelled on its own (FormSpec), and so is the application logic of *)
(* the client page, src/src/public/app.js (PageSpec).  PairSpec follows    *)
(* several sessions at once.                                               *)
(*                                                                         *)
(* Node runs the handlers one at a time; the only suspension point inside  *)
(* a handler is `await formHandler.submit(...)`.  An action below is one   *)
(* run of a handler from its start (or from the resumption of its await)   *)
(* to its next await or to its end.                                        *)
(***************************************************************************)
EXTENDS Integers, Sequences, FiniteSets, TLC

\* ---------------------------------------------------------------- bounds
MaxSessions == 1
MaxUpFrames == 2
MaxClFrames == 2
MaxCalls == 2
MaxId == 2
MaxFormCalls == 3
PairSessions == 2
PairUpFrames == 2
PairClFrames == 1
PairCalls == 1
MaxPageSockets == 2
MaxAudio == 2

Sessions == 1..PairSessions

\* The traffic followed: MaxSessions sessions with the full traffic, or
\* PairSessions sessions at once with less of it.
SoloCap == [sessions |-> MaxSessions, upFrames |-> MaxUpFrames, clFrames |-> MaxClFrames, calls |-> MaxCalls]
PairCap == [sessions |-> PairSessions, upFrames |-> PairUpFrames, clFrames |-> PairClFrames, calls |-> PairCalls]

\* ---------------------------------------------------------------- frames
\* The error messages a rejected submission can carry (err.message).
Reasons == {"network error"}

\* One entry of msg.toolCall.functionCalls: call.id, call.name and whether
\* call.args is present.  args is only read for submit_form calls, and the id
\* only after a submission, so one call of another name and one submit_form
\* call without args stand for all of them.
FunctionCalls ==
    {c \in [id : 1..MaxId, name : {"submit_form", "Submit_Form"}, hasArgs : BOOLEAN] :
        (c.name = "submit_form" /\ c.hasArgs) \/ (c.id = 1 /\ (c.name = "submit_form" \/ c.hasArgs))}

CallSeqs == UNION {[1..k -> FunctionCalls] : k \in 0..MaxCalls}

\* A frame received from upstream: the transport's binary/text mark and what
\* its payload is: "raw" (not JSON), "json" (JSON without a truthy toolCall)
\* or "toolCall" (JSON with msg.toolCall, calls = toolCall.functionCalls; an
\* absent functionCalls behaves as the empty list).
\* A binary frame is never decoded: one (audio) stands for all.
UpFrames ==
    {[mark |-> "binary", body |-> "raw", calls |-> <<>>]}
    \cup {[mark |-> "text", body |-> b, calls |-> <<>>] : b \in {"raw", "json"}}
    \cup {[mark |-> "text", body |-> "toolCall", calls |-> cs] : cs \in CallSeqs}

\* A frame received from the client (the page sends realtime_input JSON text;
\* any frame, whatever its payload, takes the same path).
ClFrames == {[mark |-> "binary", body |-> "audio"], [mark |-> "text", body |-> "toolCall"]}

\* ----------------------------------------------------------------- state
VARIABLES
    alive,          \* the node process is running
    textAsBuffer,   \* the ws library hands text frames to 'message' listeners as Buffer
    n,              \* number of connections accepted so far (sessions 1..n exist)
    ws,             \* ws.readyState per session ("NONE" before the connection)
    geminiWs,       \* geminiWs.readyState per session
    opened,         \* geminiWs 'open' has fired
    upRecv,         \* frames delivered to geminiWs.on('message'), in order
    handlers,       \* the invocation of the async listener for each such frame:
                    \* pc (awaiting a submission or done), j (the call awaited),
                    \* live (the client connection was OPEN when the frame came)
    clRecv,         \* frames delivered to ws.on('message'), in order
    upSent,         \* messages put on the upstream connection, in order
    clSent,         \* frames put on the client connection, in order
    submits,        \* invocations of formHandler.submit, in order, each with the
                    \* frame k and call j it is for, the call's id and its outcome
    formUrl,        \* the URL a GoogleFormHandler was constructed with
    fetched,        \* what its fetchForm() calls returned, in order
    submitted,      \* its submit(data, testMode) calls with their outcome, in order
    posts,          \* the requests its calls made with axios.post, in order
    cap,            \* the traffic a run is followed for: sessions accepted, frames
                    \* received from upstream and from clients, function calls
    closeSent,      \* per session, the close frame the server put on the client
                    \* connection (the arguments of its ws.close() call)
    isConnected,    \* app.js: the page's isConnected
    pageWs,         \* app.js: the page's `ws`, the index of a socket or 0 for null
    pageRecorder,   \* app.js: the page's `recorder`, the index of a recorder or 0
    sockets,        \* readyState of every WebSocket the page created, in order
    recorders,      \* state of every AudioRecorder the page created, in order:
                    \* "starting" (getUserMedia pending), "capturing", "stopped",
                    \* "failed" (getUserMedia rejected)
    audioLog        \* the runs of the audio callback: the recorder that ran it,
                    \* the value of `ws` it saw and what it did

connVars == <<n, ws, geminiWs, opened, closeSent>>
logVars == <<upRecv, handlers, clRecv, upSent, clSent, submits>>
formVars == <<formUrl, fetched, submitted, posts>>
pageVars == <<isConnected, pageWs, pageRecorder, sockets, recorders, audioLog>>
asideVars == <<cap, formVars, pageVars>>
vars == <<alive, textAsBuffer, connVars, logVars, asideVars>>

\* ------------------------------------------------------------ form fields
\* FORM_FIELDS of form.ts, in its order.
FORM_FIELDS ==
    << [id |-> "entry.2005620554", label |-> "Name", required |-> TRUE, type |-> "text"],
       [id |-> "entry.1045781291", label |-> "Email", required |-> TRUE, type |-> "email"],
       [id |-> "entry.1166974658", label |-> "Phone number", required |-> FALSE, type |-> "text"],
       [id |-> "entry.839337160", label |-> "Comments", required |-> FALSE, type |-> "text"] >>

\* fetchForm with a slip: the fields are those of the server's own form only.
fetchFormOfKnownUrl(url) ==
    IF url = "https://docs.google.com/forms/d/e/1FAIpQLSeMLg8CT19TR38gzNso1kf5SnPOitt1-XTSC262addWlBnytQ/viewform?usp=dialog"
    THEN FORM_FIELDS ELSE <<>>

\* GoogleFormHandler.fetchForm() of a handler constructed with url.
fetchForm(url) == FORM_FIELDS

\* The form URL server.ts constructs its handler with.
FORM_URL == "https://docs.google.com/forms/d/e/1FAIpQLSeMLg8CT19TR38gzNso1kf5SnPOitt1-XTSC262addWlBnytQ/viewform?usp=dialog"

\* cachedFields after init(): the server listens only once init() is over,
\* and fetchForm never rejects, so the catch of init() is never entered.
cachedFields == fetchForm(FORM_URL)

\* `${b}` of a boolean.
BoolText(b) == IF b THEN "true" ELSE "false"

\* FieldDescription with a slip: the line names the label only.
FieldDescriptionLabelOnly(f) == <<"- ", f.label>>

\* A text is the sequence of its pieces.  One line of fieldDescriptions:
\* `- ${f.label} (ID: ${f.id}, Required: ${f.required}, Type: ${f.type})`.
FieldDescription(f) ==
    <<"- ", f.label, " (ID: ", f.id, ", Required: ", BoolText(f.required), ", Type: ", f.type, ")">>

\* lines.join(sep), from line i on.
RECURSIVE Join(_, _, _)
Join(lines, sep, i) ==
    IF i > Len(lines) THEN <<>>
    ELSE IF i = Len(lines) THEN lines[i]
    ELSE lines[i] \o <<sep>> \o Join(lines, sep, i + 1)

fieldDescriptions ==
    Join([i \in 1..Len(cachedFields) |-> FieldDescription(cachedFields[i])], "\n", 1)

\* text.trim() for a text whose white space is in pieces of their own.
RECURSIVE Trim(_)
Trim(text) ==
    IF text = <<>> THEN text
    ELSE IF Head(text) \in {"\n", "\n\n"} THEN Trim(Tail(text))
    ELSE IF text[Len(text)] \in {"\n", "\n\n"} THEN Trim(SubSeq(text, 1, Len(text) - 1))
    ELSE text

\* systemInstruction after init(): the template with fieldDescriptions in it.
systemInstruction ==
    Trim(<<"\n", "You are a helpful voice assistant ... from the user:", "\n\n">>
         \o fieldDescriptions
         \o <<"\n\n", "Procedure: ... Important: ...", "\n">>)

\* ------------------------------------------------------------ submission
\* The URLs a handler is constructed with: the server's, the test's, none.
FormUrls == {FORM_URL, "https://docs.google.com/forms/test", ""}

\* The payloads submit is called with: args.data absent, empty, filled in.
Payloads == {"undefined", "{}", "{entry.2005620554: Ann, entry.1045781291: ann@example.org}"}

\* The URL submit posts to, whatever the handler's formUrl.
submitUrl == "https://docs.google.com/forms/d/e/1FAIpQLSeMLg8CT19TR38gzNso1kf5SnPOitt1-XTSC262addWlBnytQ/formResponse"

\* SubmitPosts with a slip: the test-mode flag is not looked at.
SubmitPostsAlways(data, testMode) == <<[url |-> submitUrl, body |-> data]>>

\* The requests submit(data, testMode) makes: none in test mode, else one
\* axios.post of the url-encoded data.
SubmitPosts(data, testMode) ==
    IF testMode THEN <<>> ELSE <<[url |-> submitUrl, body |-> data]>>

\* How submit(data, testMode) can settle: in test mode it returns; otherwise
\* it returns when the post succeeds and rethrows its error when it fails.
SubmitOutcomes(testMode) == IF testMode THEN {"ok"} ELSE {"ok"} \cup Reasons

\* ------------------------------------------------------------- messages
\* Messages on the upstream connection.  k/j name the upstream frame and the
\* function call an injected message answers (0 when not applicable).
\* The setup message carries system_instruction.parts[0].text and, for each
\* entry of tools[0].function_declarations, its name and parameters.required.
SetupMessage ==
    [type |-> "setup", id |-> 0, success |-> FALSE, error |-> "", k |-> 0, j |-> 0,
     body |-> "setup", binary |-> FALSE, turn_complete |-> FALSE,
     system_instruction |-> systemInstruction,
     function_declarations |-> <<[name |-> "submit_form", required |-> <<"data">>]>>]

\* ClientFrame with a slip: the frame is wrapped before it is forwarded.
ClientFrameWrapped(k, f, bin) ==
    [type |-> "client", id |-> 0, success |-> FALSE, error |-> "", k |-> k, j |-> 0,
     body |-> "wrapped", binary |-> bin, turn_complete |-> FALSE]

ClientFrame(k, f, bin) ==
    [type |-> "client", id |-> 0, success |-> FALSE, error |-> "", k |-> k, j |-> 0,
     body |-> f.body, binary |-> bin, turn_complete |-> FALSE]

ToolResponseOk(k, j, call) ==
    [type |-> "toolResponse", id |-> call.id, success |-> TRUE, error |-> "", k |-> k, j |-> j,
     body |-> "", binary |-> FALSE, turn_complete |-> FALSE]

ToolResponseErr(k, j, call, reason) ==
    [type |-> "toolResponse", id |-> call.id, success |-> FALSE, error |-> reason, k |-> k, j |-> j,
     body |-> "", binary |-> FALSE, turn_complete |-> FALSE]

ClientContent(k, j) ==
    [type |-> "client_content", id |-> 0, success |-> FALSE, error |-> "", k |-> k, j |-> j,
     body |-> "", binary |-> FALSE, turn_complete |-> TRUE]

\* ------------------------------------------------------------- transport
\* Buffer.isBuffer(data): a binary frame is always a Buffer; a text frame is a
\* string or a Buffer depending on the ws library in use.
IsBuffer(f) == f.mark = "binary" \/ textAsBuffer

\* Send with a slip: a socket that is closing still transmits.
SendWhileClosing(state, log, x) == IF state \in {"OPEN", "CLOSING"} THEN Append(log, x) ELSE log

\* socket.send(x): transmitted when the socket is OPEN, otherwise a no-op.
Send(state, log, x) == IF state = "OPEN" THEN Append(log, x) ELSE log

\* Close with a slip: the other socket is left as it is.
CloseNothing(state) == state

\* socket.close(): starts the closing handshake of an OPEN socket, aborts a
\* CONNECTING one; no effect on a CLOSING or CLOSED socket.
Close(state) == IF state \in {"OPEN", "CONNECTING"} THEN "CLOSING" ELSE state

\* No close frame was sent.
NoCloseFrame == [sent |-> FALSE, code |-> "", reason |-> ""]

\* The close frame of ws.close(), called without a code and without a reason,
\* on a socket whose close frame so far is frame: an OPEN socket sends a
\* close frame without status; otherwise nothing more is sent.
CloseFrame(state, frame) ==
    IF state = "OPEN" THEN [sent |-> TRUE, code |-> "", reason |-> ""] ELSE frame

\* ws.send(data) of the upstream frame k: sent as binary iff data is a Buffer.
ForwardToClient(s, k, f) ==
    Send(ws[s], clSent[s], [k |-> k, data |-> f, binary |-> IsBuffer(f)])

\* CatchForward with a slip: the catch block swallows the frame.
CatchSwallow(s, k, f) == clSent[s]

\* ForwardAfter with a slip: a message whose tool call was handled is not
\* passed on (a `return` after the mediation).
ForwardUnlessHandled(s, k, f) ==
    IF \E i \in 1..Len(f.calls) : f.calls[i].name = "submit_form"
    THEN clSent[s]
    ELSE Send(ws[s], clSent[s], [k |-> k, data |-> f, binary |-> f.mark = "binary" \/ textAsBuffer])

\* The catch block of the listener (`// Not JSON, just forward raw`).
CatchForward(s, k, f) == ForwardToClient(s, k, f)

\* The last statement of the try block (`// Always forward to client`).
ForwardAfter(s, k, f) == ForwardToClient(s, k, f)

\* JSON.parse(strData) succeeds.
Decodes(f) == f.body # "raw"

RECURSIVE SumLen(_, _)
SumLen(log, s) == IF s = 0 THEN 0 ELSE Len(log[s]) + SumLen(log, s - 1)

\* The number of function calls received so far, over all frames and sessions.
RECURSIVE CallsIn(_, _)
CallsIn(fs, k) == IF k = 0 THEN 0 ELSE Len(fs[k].calls) + CallsIn(fs, k - 1)

RECURSIVE SumCalls(_)
SumCalls(s) == IF s = 0 THEN 0 ELSE CallsIn(upRecv[s], Len(upRecv[s])) + SumCalls(s - 1)

\* --------------------------------------------------------------- mediator
\* NextSubmit with a slip: the name is compared without regard to case.
RECURSIVE NextSubmitAnyCase(_, _)
NextSubmitAnyCase(calls, i) ==
    IF i > Len(calls) THEN 0
    ELSE IF calls[i].name \in {"submit_form", "Submit_Form"} THEN i
    ELSE NextSubmitAnyCase(calls, i + 1)

\* The first index >= i of a call named exactly submit_form, 0 when none.
RECURSIVE NextSubmit(_, _)
NextSubmit(calls, i) ==
    IF i > Len(calls) THEN 0
    ELSE IF calls[i].name = "submit_form" THEN i
    ELSE NextSubmit(calls, i + 1)

\* The listener body from the `for` loop position i up to its next await or
\* its end, for upstream frame k of session s (a text frame that parsed).
\*   no further submit_form call: ws.send(data), done;
\*   call.args undefined: args.data throws, the outer catch forwards, done;
\*   otherwise formHandler.submit(args.data) is invoked and awaited.
\* hs and sb are the handlers and the submissions as the caller leaves them.
RunCalls(s, k, f, i, hs, sb) ==
    LET j == NextSubmit(f.calls, i) IN
    IF j = 0 \/ ~f.calls[j].hasArgs
    THEN /\ clSent' = [clSent EXCEPT ![s] =
                          IF j = 0 THEN ForwardAfter(s, k, f) ELSE CatchForward(s, k, f)]
         /\ handlers' = [hs EXCEPT ![s][k].pc = "done", ![s][k].j = 0]
         /\ submits' = sb
    ELSE /\ submits' = [sb EXCEPT ![s] =
                            Append(@, [k |-> k, j |-> j, id |-> f.calls[j].id, res |-> "pending"])]
         /\ handlers' = [hs EXCEPT ![s][k].pc = "await", ![s][k].j = j]
         /\ UNCHANGED clSent

\* The position in submits[s] of the invocation for call j of frame k.
SubmitOf(s, k, j) ==
    CHOOSE m \in 1..Len(submits[s]) : submits[s][m].k = k /\ submits[s][m].j = j

\* Inject with a slip: the follow-up turn is sent after a failure response too.
InjectTurnAlways(s, k, j, call, r) ==
    Send(geminiWs[s],
         Send(geminiWs[s], upSent[s],
              IF r = "ok" THEN ToolResponseOk(k, j, call) ELSE ToolResponseErr(k, j, call, r)),
         ClientContent(k, j))

\* InjectMessages with a slip: the follow-up turn goes out before the response.
InjectMessagesTurnFirst(k, j, call, r) ==
    IF r = "ok"
    THEN <<ClientContent(k, j), ToolResponseOk(k, j, call)>>
    ELSE <<ToolResponseErr(k, j, call, r)>>

\* socket.send of each message of msgs, in order.
RECURSIVE SendAll(_, _, _)
SendAll(state, log, msgs) ==
    IF msgs = <<>> THEN log ELSE SendAll(state, Send(state, log, Head(msgs)), Tail(msgs))

\* The messages the listener sends upstream when the awaited submission of
\* call j of frame k settles with r: on "ok" the tool response then the
\* follow-up turn, on a rejection the failure response carrying err.message.
InjectMessages(k, j, call, r) ==
    IF r = "ok"
    THEN <<ToolResponseOk(k, j, call), ClientContent(k, j)>>
    ELSE <<ToolResponseErr(k, j, call, r)>>

\* The upstream traffic of session s after these sends.
Inject(s, k, j, call, r) == SendAll(geminiWs[s], upSent[s], InjectMessages(k, j, call, r))

\* ---------------------------------------------------------------- actions
Init ==
    /\ alive = TRUE
    /\ textAsBuffer \in BOOLEAN
    /\ n = 0
    /\ ws = [s \in Sessions |-> "NONE"]
    /\ geminiWs = [s \in Sessions |-> "NONE"]
    /\ opened = [s \in Sessions |-> FALSE]
    /\ upRecv = [s \in Sessions |-> <<>>]
    /\ handlers = [s \in Sessions |-> <<>>]
    /\ clRecv = [s \in Sessions |-> <<>>]
    /\ upSent = [s \in Sessions |-> <<>>]
    /\ clSent = [s \in Sessions |-> <<>>]
    /\ submits = [s \in Sessions |-> <<>>]
    /\ cap = SoloCap
    /\ closeSent = [s \in Sessions |-> NoCloseFrame]
    /\ formUrl = FORM_URL
    /\ fetched = <<>>
    /\ submitted = <<>>
    /\ posts = <<>>
    /\ isConnected = FALSE
    /\ pageWs = 0
    /\ pageRecorder = 0
    /\ sockets = <<>>
    /\ recorders = <<>>
    /\ audioLog = <<>>

\* wss.on('connection'): the client socket is OPEN, geminiWs is created.
Connection(s) ==
    /\ alive
    /\ s = n + 1
    /\ s <= cap.sessions
    /\ n' = s
    /\ ws' = [ws EXCEPT ![s] = "OPEN"]
    /\ geminiWs' = [geminiWs EXCEPT ![s] = "CONNECTING"]
    /\ UNCHANGED <<alive, textAsBuffer, asideVars, opened, closeSent, logVars>>

\* GeminiOpen with a slip: the client frames that came before the open were
\* kept and are sent after the setup message.
GeminiOpenFlush(s) ==
    /\ alive
    /\ geminiWs[s] = "CONNECTING"
    /\ geminiWs' = [geminiWs EXCEPT ![s] = "OPEN"]
    /\ opened' = [opened EXCEPT ![s] = TRUE]
    /\ upSent' = [upSent EXCEPT ![s] =
                    <<SetupMessage>> \o [i \in 1..Len(clRecv[s]) |->
                                            ClientFrame(i, clRecv[s][i], IsBuffer(clRecv[s][i]))]]
    /\ UNCHANGED <<alive, textAsBuffer, asideVars, n, ws, closeSent, upRecv, handlers, clRecv, clSent, submits>>

\* geminiWs.on('open'): the setup message is sent.
GeminiOpen(s) ==
    /\ alive
    /\ geminiWs[s] = "CONNECTING"
    /\ geminiWs' = [geminiWs EXCEPT ![s] = "OPEN"]
    /\ opened' = [opened EXCEPT ![s] = TRUE]
    /\ upSent' = [upSent EXCEPT ![s] = Send("OPEN", @, SetupMessage)]
    /\ UNCHANGED <<alive, textAsBuffer, asideVars, n, ws, closeSent, upRecv, handlers, clRecv, clSent, submits>>

\* geminiWs.on('message'), from its start to its first await or its end.
\* The listener tests no state: it also runs for a frame that arrives after
\* geminiWs.close() was called and before the closing handshake is complete.
GeminiMessage(s, f) ==
    /\ alive
    /\ opened[s]
    /\ geminiWs[s] \in {"OPEN", "CLOSING"}
    /\ SumLen(upRecv, PairSessions) < cap.upFrames
    /\ SumCalls(PairSessions) + Len(f.calls) <= cap.calls
    /\ LET k == Len(upRecv[s]) + 1
           hs == [handlers EXCEPT ![s] =
                      Append(@, [pc |-> "done", j |-> 0, live |-> ws[s] = "OPEN"])]
       IN /\ upRecv' = [upRecv EXCEPT ![s] = Append(@, f)]
          /\ IF IsBuffer(f) \/ ~Decodes(f) \/ f.body # "toolCall"
             THEN /\ clSent' = [clSent EXCEPT ![s] =
                                   IF IsBuffer(f) THEN ForwardToClient(s, k, f)
                                   ELSE IF ~Decodes(f) THEN CatchForward(s, k, f)
                                   ELSE ForwardAfter(s, k, f)]
                  /\ handlers' = hs
                  /\ UNCHANGED submits
             ELSE RunCalls(s, k, f, 1, hs, submits)
    /\ UNCHANGED <<alive, textAsBuffer, asideVars, connVars, clRecv, upSent>>

\* SubmitSettles with a slip: a rejected submission is treated as fatal for
\* the session, the upstream connection is closed after the failure response.
SubmitSettlesFailFast(s, k, r) ==
    /\ alive
    /\ k \in 1..Len(handlers[s])
    /\ handlers[s][k].pc = "await"
    /\ LET f == upRecv[s][k]
           j == handlers[s][k].j
       IN /\ upSent' = [upSent EXCEPT ![s] = Inject(s, k, j, f.calls[j], r)]
          /\ RunCalls(s, k, f, j + 1, handlers,
                      [submits EXCEPT ![s][SubmitOf(s, k, j)].res = r])
    /\ geminiWs' = [geminiWs EXCEPT ![s] = IF r = "ok" THEN @ ELSE Close(@)]
    /\ UNCHANGED <<alive, textAsBuffer, asideVars, n, ws, opened, closeSent, upRecv, clRecv>>

\* SubmitSettles with a slip: a rejected submission is attempted once more
\* before the failure is reported.
SubmitSettlesRetry(s, k, r) ==
    /\ alive
    /\ k \in 1..Len(handlers[s])
    /\ handlers[s][k].pc = "await"
    /\ LET f == upRecv[s][k]
           j == handlers[s][k].j
           tries == Cardinality({m \in 1..Len(submits[s]) : submits[s][m].k = k /\ submits[s][m].j = j})
           last == CHOOSE m \in 1..Len(submits[s]) :
                       submits[s][m].k = k /\ submits[s][m].j = j /\ submits[s][m].res = "pending"
       IN IF r # "ok" /\ tries = 1
          THEN /\ submits' = [submits EXCEPT ![s] =
                                  Append([@ EXCEPT ![last].res = r],
                                         [k |-> k, j |-> j, id |-> f.calls[j].id, res |-> "pending"])]
               /\ UNCHANGED <<upSent, handlers, clSent>>
          ELSE /\ upSent' = [upSent EXCEPT ![s] = Inject(s, k, j, f.calls[j], r)]
               /\ RunCalls(s, k, f, j + 1, handlers, [submits EXCEPT ![s][last].res = r])
    /\ UNCHANGED <<alive, textAsBuffer, asideVars, connVars, upRecv, clRecv>>

\* The awaited formHandler.submit of frame k settles with r ("ok" or the
\* rejection's message); the listener resumes up to its next await or its end.
SubmitSettles(s, k, r) ==
    /\ alive
    /\ k \in 1..Len(handlers[s])
    /\ handlers[s][k].pc = "await"
    /\ LET f == upRecv[s][k]
           j == handlers[s][k].j
       IN /\ upSent' = [upSent EXCEPT ![s] = Inject(s, k, j, f.calls[j], r)]
          /\ RunCalls(s, k, f, j + 1, handlers,
                      [submits EXCEPT ![s][SubmitOf(s, k, j)].res = r])
    /\ UNCHANGED <<alive, textAsBuffer, asideVars, connVars, upRecv, clRecv>>

\* ClientMessage with a slip: the frame goes to every open upstream
\* connection of the process.
ClientMessageBroadcast(s, f) ==
    /\ alive
    /\ ws[s] \in {"OPEN", "CLOSING"}
    /\ SumLen(clRecv, PairSessions) < cap.clFrames
    /\ clRecv' = [clRecv EXCEPT ![s] = Append(@, f)]
    /\ upSent' = [t \in Sessions |->
                    IF geminiWs[t] = "OPEN"
                    THEN Append(upSent[t],
                                [type |-> "client", id |-> 0, success |-> FALSE, error |-> "",
                                 k |-> Len(clRecv[s]) + 1, j |-> 0, body |-> f.body,
                                 binary |-> f.mark = "binary" \/ textAsBuffer,
                                 turn_complete |-> FALSE])
                    ELSE upSent[t]]
    /\ UNCHANGED <<alive, textAsBuffer, asideVars, connVars, upRecv, handlers, clSent, submits>>

\* ClientMessage with a slip: client frames wait for the listener that is
\* awaiting a submission.
ClientMessageStalled(s, f) ==
    /\ alive
    /\ ws[s] \in {"OPEN", "CLOSING"}
    /\ \A k \in 1..Len(handlers[s]) : handlers[s][k].pc # "await"
    /\ SumLen(clRecv, PairSessions) < cap.clFrames
    /\ clRecv' = [clRecv EXCEPT ![s] = Append(@, f)]
    /\ upSent' = [upSent EXCEPT ![s] =
                    IF geminiWs[s] = "OPEN"
                    THEN Append(@, [type |-> "client", id |-> 0, success |-> FALSE, error |-> "",
                                    k |-> Len(clRecv[s]) + 1, j |-> 0, body |-> f.body,
                                    binary |-> f.mark = "binary" \/ textAsBuffer,
                                    turn_complete |-> FALSE])
                    ELSE @]
    /\ UNCHANGED <<alive, textAsBuffer, asideVars, connVars, upRecv, handlers, clSent, submits>>

\* ClientMessage with a slip: no readyState test, a frame that comes while
\* geminiWs is still CONNECTING is queued on the connection.
ClientMessageUnguarded(s, f) ==
    /\ alive
    /\ ws[s] \in {"OPEN", "CLOSING"}
    /\ SumLen(clRecv, PairSessions) < cap.clFrames
    /\ clRecv' = [clRecv EXCEPT ![s] = Append(@, f)]
    /\ upSent' = [upSent EXCEPT ![s] =
                    IF geminiWs[s] \in {"CONNECTING", "OPEN"}
                    THEN Append(@, ClientFrame(Len(clRecv[s]) + 1, f, IsBuffer(f)))
                    ELSE @]
    /\ UNCHANGED <<alive, textAsBuffer, asideVars, connVars, upRecv, handlers, clSent, submits>>

\* ws.on('message'): forwarded only while geminiWs is OPEN, dropped otherwise.
ClientMessage(s, f) ==
    /\ alive
    /\ ws[s] \in {"OPEN", "CLOSING"}
    /\ SumLen(clRecv, PairSessions) < cap.clFrames
    /\ clRecv' = [clRecv EXCEPT ![s] = Append(@, f)]
    /\ upSent' = [upSent EXCEPT ![s] =
                    IF geminiWs[s] = "OPEN"
                    THEN Send(geminiWs[s], @, ClientFrame(Len(clRecv[s]) + 1, f, IsBuffer(f)))
                    ELSE @]
    /\ UNCHANGED <<alive, textAsBuffer, asideVars, connVars, upRecv, handlers, clSent, submits>>

\* ws.on('close'): the client connection is closed; geminiWs.close().
ClientClose(s) ==
    /\ alive
    /\ ws[s] \in {"OPEN", "CLOSING"}
    /\ ws' = [ws EXCEPT ![s] = "CLOSED"]
    /\ geminiWs' = [geminiWs EXCEPT ![s] = Close(@)]
    /\ UNCHANGED <<alive, textAsBuffer, asideVars, n, opened, closeSent, logVars>>

\* geminiWs.on('close'): the upstream connection is closed; ws.close().
GeminiClose(s) ==
    /\ alive
    /\ geminiWs[s] \in {"OPEN", "CLOSING"}
    /\ geminiWs' = [geminiWs EXCEPT ![s] = "CLOSED"]
    /\ ws' = [ws EXCEPT ![s] = Close(@)]
    /\ closeSent' = [closeSent EXCEPT ![s] = CloseFrame(ws[s], @)]
    /\ UNCHANGED <<alive, textAsBuffer, asideVars, n, opened, logVars>>

\* GeminiError with a slip: the failure of the upstream connection is logged
\* and the client connection is left as it is.
GeminiErrorKeepsClient(s) ==
    /\ alive
    /\ geminiWs[s] \in {"CONNECTING", "OPEN"}
    /\ geminiWs' = [geminiWs EXCEPT ![s] = "CLOSED"]
    /\ UNCHANGED <<alive, textAsBuffer, asideVars, n, ws, opened, closeSent, logVars>>

\* GeminiError with a slip: a failed upstream connection is replaced by a new
\* one and the client connection is kept.
GeminiErrorReconnect(s) ==
    /\ alive
    /\ geminiWs[s] \in {"CONNECTING", "OPEN"}
    /\ geminiWs' = [geminiWs EXCEPT ![s] = "CONNECTING"]
    /\ opened' = [opened EXCEPT ![s] = FALSE]
    /\ UNCHANGED <<alive, textAsBuffer, asideVars, n, ws, closeSent, logVars>>

\* geminiWs.on('error') logs; the library emits 'close' right after it.
GeminiError(s) ==
    /\ alive
    /\ geminiWs[s] \in {"CONNECTING", "OPEN"}
    /\ geminiWs' = [geminiWs EXCEPT ![s] = "CLOSED"]
    /\ ws' = [ws EXCEPT ![s] = Close(@)]
    /\ closeSent' = [closeSent EXCEPT ![s] = CloseFrame(ws[s], @)]
    /\ UNCHANGED <<alive, textAsBuffer, asideVars, n, opened, logVars>>

\* An 'error' event on ws: no listener is registered for it, so the emit
\* throws and the process exits; every socket of the process is gone.
ClientError(s) ==
    /\ alive
    /\ ws[s] \in {"OPEN", "CLOSING"}
    /\ alive' = FALSE
    /\ ws' = [t \in Sessions |-> IF ws[t] = "NONE" THEN "NONE" ELSE "CLOSED"]
    /\ geminiWs' = [t \in Sessions |-> IF geminiWs[t] = "NONE" THEN "NONE" ELSE "CLOSED"]
    /\ UNCHANGED <<textAsBuffer, asideVars, n, opened, closeSent, logVars>>

Next ==
    \E s \in Sessions :
        \/ Connection(s)
        \/ GeminiOpen(s)
        \/ \E f \in UpFrames : GeminiMessage(s, f)
        \/ \E k \in 1..(MaxUpFrames + PairUpFrames), r \in SubmitOutcomes(FALSE) : SubmitSettles(s, k, r)
        \/ \E f \in ClFrames : ClientMessage(s, f)
        \/ ClientClose(s)
        \/ GeminiClose(s)
        \/ GeminiError(s)
        \/ ClientError(s)

Spec == Init /\ [][Next]_vars

\* A close that server.ts started (socket.close()) completes: the peer answers
\* the close frame or the library's close timer destroys the socket, and an
\* aborted handshake emits 'close' on the next tick.
FairSpec ==
    /\ Spec
    /\ \A s \in Sessions : WF_vars(ws[s] = "CLOSING" /\ ClientClose(s))
    /\ \A s \in Sessions : WF_vars(geminiWs[s] = "CLOSING" /\ GeminiClose(s))

\* Several sessions at once.
PairInit ==
    /\ alive = TRUE
    /\ textAsBuffer \in BOOLEAN
    /\ n = 0
    /\ ws = [s \in Sessions |-> "NONE"]
    /\ geminiWs = [s \in Sessions |-> "NONE"]
    /\ opened = [s \in Sessions |-> FALSE]
    /\ upRecv = [s \in Sessions |-> <<>>]
    /\ handlers = [s \in Sessions |-> <<>>]
    /\ clRecv = [s \in Sessions |-> <<>>]
    /\ upSent = [s \in Sessions |-> <<>>]
    /\ clSent = [s \in Sessions |-> <<>>]
    /\ submits = [s \in Sessions |-> <<>>]
    /\ cap = PairCap
    /\ closeSent = [s \in Sessions |-> NoCloseFrame]
    /\ formUrl = FORM_URL
    /\ fetched = <<>>
    /\ submitted = <<>>
    /\ posts = <<>>
    /\ isConnected = FALSE
    /\ pageWs = 0
    /\ pageRecorder = 0
    /\ sockets = <<>>
    /\ recorders = <<>>
    /\ audioLog = <<>>

PairSpec == PairInit /\ [][Next]_vars

\* ------------------------------------------------------- the form handler
\* A GoogleFormHandler on its own, constructed with any URL and called in any
\* order; the server is not started.
FormInit ==
    /\ alive = TRUE
    /\ textAsBuffer \in BOOLEAN
    /\ n = 0
    /\ ws = [s \in Sessions |-> "NONE"]
    /\ geminiWs = [s \in Sessions |-> "NONE"]
    /\ opened = [s \in Sessions |-> FALSE]
    /\ upRecv = [s \in Sessions |-> <<>>]
    /\ handlers = [s \in Sessions |-> <<>>]
    /\ clRecv = [s \in Sessions |-> <<>>]
    /\ upSent = [s \in Sessions |-> <<>>]
    /\ clSent = [s \in Sessions |-> <<>>]
    /\ submits = [s \in Sessions |-> <<>>]
    /\ cap = SoloCap
    /\ closeSent = [s \in Sessions |-> NoCloseFrame]
    /\ formUrl \in FormUrls
    /\ fetched = <<>>
    /\ submitted = <<>>
    /\ posts = <<>>
    /\ isConnected = FALSE
    /\ pageWs = 0
    /\ pageRecorder = 0
    /\ sockets = <<>>
    /\ recorders = <<>>
    /\ audioLog = <<>>

\* await handler.fetchForm().
FetchForm ==
    /\ Len(fetched) + Len(submitted) < MaxFormCalls
    /\ fetched' = Append(fetched, fetchForm(formUrl))
    /\ UNCHANGED <<alive, textAsBuffer, connVars, logVars, cap, pageVars, formUrl, submitted, posts>>

\* await handler.submit(data, testMode), settling with r.
SubmitCall(data, testMode, r) ==
    /\ Len(fetched) + Len(submitted) < MaxFormCalls
    /\ r \in SubmitOutcomes(testMode)
    /\ posts' = posts \o SubmitPosts(data, testMode)
    /\ submitted' = Append(submitted, [data |-> data, testMode |-> testMode, res |-> r])
    /\ UNCHANGED <<alive, textAsBuffer, connVars, logVars, cap, pageVars, formUrl, fetched>>

FormNext ==
    \/ FetchForm
    \/ \E data \in Payloads, testMode \in BOOLEAN, r \in {"ok"} \cup Reasons :
          SubmitCall(data, testMode, r)

FormSpec == FormInit /\ [][FormNext]_vars

\* ---------------------------------------------------------------- the page
\* The application logic of src/public/app.js on its own: the taps on the mic
\* button and the events of the WebSockets and AudioRecorders the page
\* created.  The AudioPlayer takes no part in it.

\* socket.close() in the browser, on the page's `ws` w (0 is null: skipped).
PageClose(socks, w) ==
    IF w = 0 THEN socks
    ELSE [socks EXCEPT ![w] = IF @ \in {"CONNECTING", "OPEN"} THEN "CLOSING" ELSE @]

\* recorder.stop() on the page's `recorder` r (0 is null: skipped): a
\* capturing recorder stops its tracks and closes its context; a recorder
\* whose getUserMedia is still pending has no stream, processor, input or
\* context yet, so stop() does nothing and start() goes on when the stream
\* arrives.
RecorderStop(recs, r) ==
    IF r = 0 THEN recs
    ELSE [recs EXCEPT ![r] = IF @ = "capturing" THEN "stopped" ELSE @]

\* disconnect(), the sockets being socks as it starts.
disconnect(socks) ==
    /\ sockets' = PageClose(socks, pageWs)
    /\ recorders' = RecorderStop(recorders, pageRecorder)
    /\ pageWs' = 0
    /\ pageRecorder' = 0
    /\ isConnected' = FALSE

\* connect(): a new WebSocket is created and assigned to `ws`.
connect ==
    /\ Len(sockets) < MaxPageSockets
    /\ sockets' = Append(sockets, "CONNECTING")
    /\ pageWs' = Len(sockets) + 1
    /\ UNCHANGED <<isConnected, pageRecorder, recorders>>

\* A tap on the mic button: toggleConnection().
Tap ==
    /\ IF isConnected THEN disconnect(sockets) ELSE connect
    /\ UNCHANGED <<alive, textAsBuffer, connVars, logVars, cap, formVars, audioLog>>

\* onopen of socket i: isConnected = true, a new AudioRecorder is assigned to
\* `recorder` and its start() runs up to `await getUserMedia`.
SocketOpen(i) ==
    /\ i \in 1..Len(sockets)
    /\ sockets[i] = "CONNECTING"
    /\ sockets' = [sockets EXCEPT ![i] = "OPEN"]
    /\ isConnected' = TRUE
    /\ recorders' = Append(recorders, "starting")
    /\ pageRecorder' = Len(recorders) + 1
    /\ UNCHANGED <<alive, textAsBuffer, connVars, logVars, cap, formVars, pageWs, audioLog>>

\* getUserMedia of recorder r resolves: start() builds the audio graph.
MediaGranted(r) ==
    /\ r \in 1..Len(recorders)
    /\ recorders[r] = "starting"
    /\ recorders' = [recorders EXCEPT ![r] = "capturing"]
    /\ UNCHANGED <<alive, textAsBuffer, connVars, logVars, cap, formVars,
                   isConnected, pageWs, pageRecorder, sockets, audioLog>>

\* getUserMedia of recorder r rejects: start() throws into onopen.
MediaDenied(r) ==
    /\ r \in 1..Len(recorders)
    /\ recorders[r] = "starting"
    /\ recorders' = [recorders EXCEPT ![r] = "failed"]
    /\ UNCHANGED <<alive, textAsBuffer, connVars, logVars, cap, formVars,
                   isConnected, pageWs, pageRecorder, sockets, audioLog>>

\* What the audio callback does with the page's `ws` being w: reading
\* ws.readyState of null throws; an OPEN socket is sent the chunk.
AudioOutcome(w) ==
    IF w = 0 THEN "TypeError" ELSE IF sockets[w] = "OPEN" THEN "sent" ELSE "skipped"

\* onaudioprocess of recorder r: the callback given to start() runs.
AudioData(r) ==
    /\ r \in 1..Len(recorders)
    /\ recorders[r] = "capturing"
    /\ Len(audioLog) < MaxAudio
    /\ audioLog' = Append(audioLog, [recorder |-> r, ws |-> pageWs, outcome |-> AudioOutcome(pageWs)])
    /\ UNCHANGED <<alive, textAsBuffer, connVars, logVars, cap, formVars,
                   isConnected, pageWs, pageRecorder, sockets, recorders>>

\* onclose of socket i (the close the page started completes, or the server
\* or the network ends the connection): disconnect().
SocketClose(i) ==
    /\ i \in 1..Len(sockets)
    /\ sockets[i] \in {"CONNECTING", "OPEN", "CLOSING"}
    /\ disconnect([sockets EXCEPT ![i] = "CLOSED"])
    /\ UNCHANGED <<alive, textAsBuffer, connVars, logVars, cap, formVars, audioLog>>

\* onerror of socket i, followed by its onclose: disconnect() runs twice, the
\* second time with `ws` and `recorder` null.
SocketError(i) ==
    /\ i \in 1..Len(sockets)
    /\ sockets[i] \in {"CONNECTING", "OPEN"}
    /\ disconnect([sockets EXCEPT ![i] = "CLOSED"])
    /\ UNCHANGED <<alive, textAsBuffer, connVars, logVars, cap, formVars, audioLog>>

PageNext ==
    \/ Tap
    \/ \E i \in 1..MaxPageSockets :
          \/ SocketOpen(i)
          \/ SocketClose(i)
          \/ SocketError(i)
          \/ MediaGranted(i)
          \/ MediaDenied(i)
          \/ AudioData(i)

\* The page as loaded; the server is not followed, the page's sockets are
\* closed by their events.
PageInit ==
    /\ alive = TRUE
    /\ textAsBuffer \in BOOLEAN
    /\ n = 0
    /\ ws = [s \in Sessions |-> "NONE"]
    /\ geminiWs = [s \in Sessions |-> "NONE"]
    /\ opened = [s \in Sessions |-> FALSE]
    /\ upRecv = [s \in Sessions |-> <<>>]
    /\ handlers = [s \in Sessions |-> <<>>]
    /\ clRecv = [s \in Sessions |-> <<>>]
    /\ upSent = [s \in Sessions |-> <<>>]
    /\ clSent = [s \in Sessions |-> <<>>]
    /\ submits = [s \in Sessions |-> <<>>]
    /\ cap = SoloCap
    /\ closeSent = [s \in Sessions |-> NoCloseFrame]
    /\ formUrl = FORM_URL
    /\ fetched = <<>>
    /\ submitted = <<>>
    /\ posts = <<>>
    /\ isConnected = FALSE
    /\ pageWs = 0
    /\ pageRecorder = 0
    /\ sockets = <<>>
    /\ recorders = <<>>
    /\ audioLog = <<>>

PageSpec == PageInit /\ [][PageNext]_vars

\* ------------------------------------------------------------ observations
\* The client frames on the upstream connection, in order.
ClientPart(log) == SelectSeq(log, LAMBDA m : m.type = "client")

\* The messages injected upstream for call j of upstream frame k.
InjectedFor(s, k, j) ==
    SelectSeq(upSent[s], LAMBDA m : m.type \in {"toolResponse", "client_content"} /\ m.k = k /\ m.j = j)

\* The deliveries of upstream frame k to the client.
DeliveriesOf(s, k) == SelectSeq(clSent[s], LAMBDA d : d.k = k)

\* ------------------------------------------------------------------ claims

\* C1 (idempotent submission): within one session formHandler.submit is
\* invoked at most once for each FunctionCallRequest id, however often the
\* id is delivered.
C1_SubmitOncePerId ==
    \A s \in Sessions : \A a, b \in 1..Len(submits[s]) :
        submits[s][a].id = submits[s][b].id => a = b

\* C2 (order preservation upstream->client): the client receives the upstream
\* frames in the order in which they arrived; a frame that arrived after a
\* ToolCall is never delivered before it.
C2_UpstreamOrder ==
    \A s \in Sessions : \A a, b \in 1..Len(clSent[s]) :
        a < b => clSent[s][a].k < clSent[s][b].k

\* The messages injected for one settled invocation are exactly the ones the
\* outcome calls for: after success the ToolResponse echoing the call's id
\* with success = true, then the ClientTurn with turn_complete = true; after a
\* failure with reason r the one ToolResponse echoing the id with
\* success = false and error = r.
ProperInjection(s, sub) ==
    LET inj == InjectedFor(s, sub.k, sub.j)
        id == upRecv[s][sub.k].calls[sub.j].id
    IN IF sub.res = "ok"
       THEN /\ Len(inj) = 2
            /\ inj[1].type = "toolResponse" /\ inj[1].id = id /\ inj[1].success
            /\ inj[2].type = "client_content" /\ inj[2].turn_complete
       ELSE /\ Len(inj) = 1
            /\ inj[1].type = "toolResponse" /\ inj[1].id = id
            /\ ~inj[1].success /\ inj[1].error = sub.res

\* C3 as claimed (injection atomicity): every settled submit_form invocation
\* has exactly its two messages (success) or its one message (failure) on
\* the upstream connection.
C3_InjectionAlways ==
    \A s \in Sessions : \A m \in 1..Len(submits[s]) :
        submits[s][m].res # "pending" => ProperInjection(s, submits[s][m])

\* C3 amended: a settled invocation has exactly its two messages (success) or
\* its one message (failure) on the upstream connection when that connection
\* was open as the submission settled; when it was no longer open, nothing at
\* all is sent for the call; nothing is sent for a call that has not settled.
C3_InjectionAtomic ==
    \A s \in Sessions : \A m \in 1..Len(submits[s]) :
        LET sub == submits[s][m] IN
        IF sub.res = "pending"
        THEN InjectedFor(s, sub.k, sub.j) = <<>>
        ELSE /\ ProperInjection(s, sub) \/ InjectedFor(s, sub.k, sub.j) = <<>>
             /\ geminiWs[s] = "OPEN" => ProperInjection(s, sub)

\* A success and a failure have both been answered on an open connection.
C3_Witness ==
    \E s \in Sessions : \E a, b \in 1..Len(submits[s]) :
        /\ submits[s][a].res = "ok" /\ Len(InjectedFor(s, submits[s][a].k, submits[s][a].j)) = 2
        /\ submits[s][b].res \in Reasons
        /\ Len(InjectedFor(s, submits[s][b].k, submits[s][b].j)) = 1

\* C4 (lifecycle coupling): once the client connection is closed the upstream
\* connection is eventually closed, and once the upstream connection is
\* closed the client connection is eventually closed.
C4_ClosePropagates ==
    \A s \in Sessions :
        /\ (ws[s] = "CLOSED") ~> (geminiWs[s] = "CLOSED")
        /\ (geminiWs[s] = "CLOSED") ~> (ws[s] = "CLOSED")

\* Both connections of a running process are closed after traffic flowed.
C4_Witness ==
    \E s \in Sessions :
        /\ alive /\ ws[s] = "CLOSED" /\ geminiWs[s] = "CLOSED"
        /\ Len(clSent[s]) > 0 /\ Len(upSent[s]) > 1

\* C5 (no processing after close): no Submission Adapter invocation starts
\* once either connection of the session has left OPEN; in particular not for
\* a ToolCall that arrives after the client closed.
C5_NoSubmitAfterClose ==
    [][\A s \in Sessions :
          Len(submits'[s]) > Len(submits[s]) => (ws[s] = "OPEN" /\ geminiWs[s] = "OPEN")]_vars

\* C6 (setup first): on an upstream connection that opened exactly one setup
\* message is sent and it is the first message on it; nothing at all is sent
\* on a connection that has not opened.
C6_SetupFirst ==
    \A s \in Sessions :
        /\ opened[s] <=> Len(upSent[s]) > 0
        /\ \A i \in 1..Len(upSent[s]) : (upSent[s][i].type = "setup") <=> (i = 1)

\* The setup message is followed by a client frame and by an injected message.
C6_Witness ==
    \E s \in Sessions :
        /\ Len(upSent[s]) >= 3 /\ upSent[s][1].type = "setup"
        /\ \E i, j \in 2..Len(upSent[s]) :
              upSent[s][i].type = "client" /\ upSent[s][j].type = "toolResponse"
        /\ \E i \in 1..Len(clRecv[s]) : \A m \in 1..Len(upSent[s]) :
              ~(upSent[s][m].type = "client" /\ upSent[s][m].k = i)

\* C9 (order preservation client->upstream): the client frames the upstream
\* observes are exactly the frames received from the client, in order, none
\* lost and none duplicated.
C9_ClientOrder ==
    \A s \in Sessions :
        LET cp == ClientPart(upSent[s]) IN
        /\ Len(cp) = Len(clRecv[s])
        /\ \A i \in 1..Len(cp) : cp[i].k = i /\ cp[i].body = clRecv[s][i].body

\* An upstream text frame that fails structural decoding.
RawText(f) == f.mark = "text" /\ f.body = "raw"

\* Nothing but one unchanged delivery to the client exists for a frame that
\* failed decoding: its listener is done, no submission and no injected
\* message is for it, and it was delivered once if the client connection was
\* open when it came (a send on a connection no longer open is a no-op).
C7_RawState ==
    \A s \in Sessions : \A k \in 1..Len(upRecv[s]) :
        RawText(upRecv[s][k]) =>
            /\ handlers[s][k].pc = "done"
            /\ \A m \in 1..Len(submits[s]) : submits[s][m].k # k
            /\ \A m \in 1..Len(upSent[s]) :
                  upSent[s][m].type \in {"toolResponse", "client_content"} => upSent[s][m].k # k
            /\ Len(DeliveriesOf(s, k)) = (IF handlers[s][k].live THEN 1 ELSE 0)
            /\ \A d \in 1..Len(DeliveriesOf(s, k)) : DeliveriesOf(s, k)[d].data = upRecv[s][k]

\* The step that receives such a frame leaves the process, both connections,
\* the upstream traffic, the submissions and the other listeners as they are.
C7_RawStep ==
    \A s \in Sessions :
        (Len(upRecv'[s]) > Len(upRecv[s]) /\ RawText(upRecv'[s][Len(upRecv'[s])])) =>
            /\ UNCHANGED <<alive, connVars, upSent, submits, clRecv>>
            /\ \A k \in 1..Len(handlers[s]) : handlers'[s][k] = handlers[s][k]

\* C7 (non-structured pass-through): an upstream text frame that fails JSON
\* decoding is forwarded to the client unchanged exactly once, causes no
\* Submission Adapter invocation and no injected upstream message, and does
\* not close or otherwise change the session.
C7_RawPassThrough == []C7_RawState /\ [][C7_RawStep]_vars

\* The decoder ran on a text frame, failed, and the frame reached the client.
C7_Witness ==
    \E s \in Sessions : \E k \in 1..Len(upRecv[s]) :
        /\ ~textAsBuffer /\ RawText(upRecv[s][k])
        /\ Len(DeliveriesOf(s, k)) = 1 /\ ws[s] = "OPEN" /\ geminiWs[s] = "OPEN"

\* C8 as claimed (ToolCall still reaches the client): every ToolCall message
\* received while the client is connected has been forwarded to the client,
\* unchanged and exactly once, when its handling is complete.
C8_ToolCallAlwaysForwarded ==
    \A s \in Sessions : \A k \in 1..Len(upRecv[s]) :
        (upRecv[s][k].body = "toolCall" /\ handlers[s][k].live /\ handlers[s][k].pc = "done") =>
            /\ Len(DeliveriesOf(s, k)) = 1
            /\ DeliveriesOf(s, k)[1].data = upRecv[s][k]

\* A ToolCall is never delivered twice nor changed; once its handling is
\* complete it has been delivered if the client connection is still open, and
\* every submission made for it has its response on a still open upstream
\* connection, whatever the outcome.
C8_ToolCallState ==
    \A s \in Sessions : \A k \in 1..Len(upRecv[s]) :
        upRecv[s][k].body = "toolCall" =>
            /\ Len(DeliveriesOf(s, k)) <= 1
            /\ \A d \in 1..Len(DeliveriesOf(s, k)) : DeliveriesOf(s, k)[d].data = upRecv[s][k]
            /\ (handlers[s][k].pc = "done" /\ ws[s] = "OPEN") => Len(DeliveriesOf(s, k)) = 1
            /\ (handlers[s][k].pc = "done" /\ geminiWs[s] = "OPEN") =>
                  \A m \in 1..Len(submits[s]) :
                      submits[s][m].k = k => Len(InjectedFor(s, k, submits[s][m].j)) >= 1

\* The step that completes the handling of a ToolCall delivers it exactly
\* when the client connection is open at that moment.
C8_ToolCallStep ==
    \A s \in Sessions : \A k \in 1..Len(upRecv'[s]) :
        (/\ upRecv'[s][k].body = "toolCall"
         /\ handlers'[s][k].pc = "done"
         /\ (k > Len(upRecv[s]) \/ handlers[s][k].pc = "await")) =>
            Len(DeliveriesOf(s, k)') = (IF ws[s] = "OPEN" THEN 1 ELSE 0)

\* C8 amended: every ToolCall message received from upstream is forwarded to
\* the client unchanged, once, when its handling completes, whether its
\* submission succeeded or failed, provided the client connection is still
\* open at that moment, and the upstream injection occurs as well if the
\* upstream connection is still open; if the client connection closed while
\* the submission was in flight the ToolCall is not delivered.
C8_ToolCallForwarded == []C8_ToolCallState /\ [][C8_ToolCallStep]_vars

\* Two decoded ToolCalls, one submitted with success and one with failure,
\* both answered upstream and both delivered to the client.
C8_Witness ==
    \E s \in Sessions : \E a, b \in 1..Len(submits[s]) :
        /\ submits[s][a].res = "ok" /\ submits[s][b].res \in Reasons
        /\ submits[s][a].k # submits[s][b].k
        /\ Len(DeliveriesOf(s, submits[s][a].k)) = 1 /\ Len(DeliveriesOf(s, submits[s][b].k)) = 1
        /\ Len(InjectedFor(s, submits[s][a].k, submits[s][a].j)) = 2
        /\ Len(InjectedFor(s, submits[s][b].k, submits[s][b].j)) = 1

\* A submission of the session has failed.
HasFailed(s) == \E m \in 1..Len(submits[s]) : submits[s][m].res \in Reasons

\* The step in which a submission fails keeps the process running, closes
\* neither connection and lets the listener go on (to its next submission or
\* to its end); and once a submission has failed, a frame received on either
\* side of the still open session is forwarded to the other side.
C10_Step ==
    \A s \in Sessions :
        /\ \A m \in 1..Len(submits[s]) :
              (submits[s][m].res = "pending" /\ submits'[s][m].res \in Reasons) =>
                  /\ alive' /\ ws'[s] = ws[s] /\ geminiWs'[s] = geminiWs[s]
                  /\ handlers'[s][submits[s][m].k].pc = "done"
                        \/ handlers'[s][submits[s][m].k].j > submits[s][m].j
        /\ (HasFailed(s) /\ ws[s] = "OPEN" /\ geminiWs[s] = "OPEN") =>
              /\ Len(clRecv'[s]) > Len(clRecv[s]) =>
                    LET cp == ClientPart(upSent'[s]) IN
                    /\ upSent'[s] = Append(upSent[s], cp[Len(cp)])
                    /\ cp[Len(cp)].k = Len(clRecv'[s])
              /\ (Len(upRecv'[s]) > Len(upRecv[s]) /\ handlers'[s][Len(upRecv'[s])].pc = "done") =>
                    /\ Len(clSent'[s]) = Len(clSent[s]) + 1
                    /\ clSent'[s][Len(clSent'[s])].k = Len(upRecv'[s])

\* C10 (submission failure is recovered locally): a failing submission does
\* not escape the mediator, closes neither connection, and frames received
\* afterwards in both directions continue to be forwarded.
C10_FailureRecovered == [][C10_Step]_vars

\* After a failed submission (its ToolCall is forwarded once the failure is
\* handled) a later upstream frame and a client frame were forwarded, and both
\* connections are still open.
C10_Witness ==
    \E s \in Sessions : \E m \in 1..Len(submits[s]) :
        /\ submits[s][m].res \in Reasons
        /\ alive /\ ws[s] = "OPEN" /\ geminiWs[s] = "OPEN"
        /\ \E a, b \in 1..Len(clSent[s]) : a < b /\ clSent[s][a].k = submits[s][m].k
        /\ \E a, b \in 1..Len(upSent[s]) :
              /\ a < b /\ upSent[s][b].type = "client"
              /\ upSent[s][a].type = "toolResponse" /\ ~upSent[s][a].success

\* An upstream frame that carries no recognized call: a decoded message
\* without a ToolCall, or a ToolCall none of whose function calls is named
\* exactly submit_form (this includes a ToolCall without function calls).
NoRecognizedCall(f) ==
    \/ f.body = "json"
    \/ f.body = "toolCall" /\ \A i \in 1..Len(f.calls) : f.calls[i].name # "submit_form"

\* For such a frame the listener is done at once, no submission and no
\* injected message is for it, and it was delivered unchanged, once, if the
\* client connection was open when it came.
C11_State ==
    \A s \in Sessions : \A k \in 1..Len(upRecv[s]) :
        NoRecognizedCall(upRecv[s][k]) =>
            /\ handlers[s][k].pc = "done"
            /\ \A m \in 1..Len(submits[s]) : submits[s][m].k # k
            /\ \A m \in 1..Len(upSent[s]) :
                  upSent[s][m].type \in {"toolResponse", "client_content"} => upSent[s][m].k # k
            /\ Len(DeliveriesOf(s, k)) = (IF handlers[s][k].live THEN 1 ELSE 0)
            /\ \A d \in 1..Len(DeliveriesOf(s, k)) : DeliveriesOf(s, k)[d].data = upRecv[s][k]

\* The step that receives such a frame invokes no submission and puts
\* nothing on the upstream connection.
C11_Step ==
    \A s \in Sessions :
        (Len(upRecv'[s]) > Len(upRecv[s]) /\ NoRecognizedCall(upRecv'[s][Len(upRecv'[s])])) =>
            UNCHANGED <<upSent, submits>>

\* C11 (no side effects without a recognized call): an upstream message that
\* is not a ToolCall, or a ToolCall whose function calls all have names
\* different from the exact, case-sensitive "submit_form" or that has no
\* function calls, causes zero invocations of formHandler.submit, zero
\* injected upstream messages, and is forwarded to the client unchanged.
C11_NoSideEffects == []C11_State /\ [][C11_Step]_vars

\* The mediator looked at a ToolCall whose only call is named Submit_Form and
\* at a decoded message without a ToolCall; both reached the client.
C11_Witness ==
    \E s \in Sessions : \E a, b \in 1..Len(upRecv[s]) :
        /\ ~textAsBuffer
        /\ upRecv[s][a].body = "toolCall" /\ Len(upRecv[s][a].calls) = 1
        /\ upRecv[s][a].calls[1].name = "Submit_Form"
        /\ upRecv[s][b].body = "json"
        /\ Len(DeliveriesOf(s, a)) = 1 /\ Len(DeliveriesOf(s, b)) = 1
        /\ submits[s] = <<>>

\* The submit_form calls of a frame carry pairwise distinct ids.
DistinctIds(f) ==
    \A a, b \in 1..Len(f.calls) :
        (f.calls[a].name = "submit_form" /\ f.calls[b].name = "submit_form"
            /\ f.calls[a].id = f.calls[b].id) => a = b

\* C12 (no early exit): when the handling of a decoded ToolCall whose
\* submit_form calls have pairwise distinct ids is complete,
\* formHandler.submit has been invoked once for each of its submit_form calls
\* that carries arguments, whatever became of the other calls of the message,
\* and on a still open upstream connection each has its own ToolResponse
\* echoing its id.
C12_NoEarlyExit ==
    \A s \in Sessions : \A k \in 1..Len(upRecv[s]) :
        LET f == upRecv[s][k] IN
        (f.body = "toolCall" /\ ~IsBuffer(f) /\ DistinctIds(f) /\ handlers[s][k].pc = "done") =>
            \A j \in 1..Len(f.calls) :
                (f.calls[j].name = "submit_form" /\ f.calls[j].hasArgs) =>
                    /\ Cardinality({m \in 1..Len(submits[s]) :
                                       submits[s][m].k = k /\ submits[s][m].j = j}) = 1
                    /\ geminiWs[s] = "OPEN" =>
                          \E i \in 1..Len(upSent[s]) :
                              /\ upSent[s][i].type = "toolResponse"
                              /\ upSent[s][i].k = k /\ upSent[s][i].j = j
                              /\ upSent[s][i].id = f.calls[j].id

\* The text contains the piece x.
Contains(text, x) == \E i \in 1..Len(text) : text[i] = x

\* C13 (setup content): every setup message sent upstream carries a
\* system-instruction text that includes the label and the id of every field
\* of the field list (Name, Email, entry.2005620554, entry.1045781291 among
\* them) and declares a tool named submit_form.
C13_SetupContent ==
    \A s \in Sessions : \A i \in 1..Len(upSent[s]) :
        upSent[s][i].type = "setup" =>
            LET text == upSent[s][i].system_instruction IN
            /\ \A m \in 1..Len(FORM_FIELDS) :
                  Contains(text, FORM_FIELDS[m].label) /\ Contains(text, FORM_FIELDS[m].id)
            /\ \A x \in {"Name", "Email", "entry.2005620554", "entry.1045781291"} : Contains(text, x)
            /\ \E d \in 1..Len(upSent[s][i].function_declarations) :
                  upSent[s][i].function_declarations[d].name = "submit_form"

\* A setup message that names the four fields was sent and traffic followed.
C13_Witness ==
    \E s \in Sessions :
        /\ Len(upSent[s]) > 1 /\ upSent[s][1].type = "setup"
        /\ Len(upSent[s][1].system_instruction) > 4 * Len(FORM_FIELDS)
        /\ Contains(upSent[s][1].system_instruction, "Comments")
        /\ Contains(upSent[s][1].system_instruction, "entry.839337160")

SomeCall == [id |-> 1, name |-> "submit_form", hasArgs |-> TRUE]

\* Every call made in test mode returned success, and what the mediator sends
\* for that outcome is what it sends for a real submission that returned:
\* the success ToolResponse, then the follow-up ClientTurn.  The posts are
\* exactly those of the calls not in test mode, in order.
C15_State ==
    /\ \A i \in 1..Len(submitted) :
          submitted[i].testMode =>
              /\ submitted[i].res = "ok"
              /\ \A m \in 1..Len(submitted) :
                    (~submitted[m].testMode /\ submitted[m].res = "ok") =>
                        InjectMessages(1, 1, SomeCall, submitted[i].res)
                            = InjectMessages(1, 1, SomeCall, submitted[m].res)
              /\ InjectMessages(1, 1, SomeCall, submitted[i].res)
                    = <<ToolResponseOk(1, 1, SomeCall), ClientContent(1, 1)>>
    /\ LET real == SelectSeq(submitted, LAMBDA e : ~e.testMode)
       IN /\ Len(posts) = Len(real)
          /\ \A i \in 1..Len(posts) : posts[i].body = real[i].data

\* A call in test mode makes no request.
C15_Step ==
    (Len(submitted') > Len(submitted) /\ submitted'[Len(submitted')].testMode) =>
        posts' = posts

C16_ClassifiedByMark ==
    \A s \in Sessions : \A k \in 1..Len(upRecv[s]) :
        LET f == upRecv[s][k]
            j == NextSubmit(f.calls, 1)
        IN /\ (f.mark = "text" /\ f.body = "toolCall" /\ j # 0 /\ f.calls[j].hasArgs) =>
                  \E m \in 1..Len(submits[s]) : submits[s][m].k = k /\ submits[s][m].j = j
           /\ f.mark = "binary" =>
                  /\ \A m \in 1..Len(submits[s]) : submits[s][m].k # k
                  /\ \A d \in 1..Len(DeliveriesOf(s, k)) :
                        DeliveriesOf(s, k)[d].data = f /\ DeliveriesOf(s, k)[d].binary

\* A submission of the session is in flight.
InFlight(s) == \E m \in 1..Len(submits[s]) : submits[s][m].res = "pending"

\* While a submission is in flight and the session is open, the listener for
\* client frames can run.
C17_State ==
    \A s \in Sessions :
        (alive /\ InFlight(s) /\ ws[s] = "OPEN" /\ SumLen(clRecv, PairSessions) < cap.clFrames) =>
            \A f \in ClFrames : ENABLED ClientMessage(s, f)

\* A client frame received while a submission is in flight and the upstream
\* connection is open goes upstream in that very step, and the submission
\* stays in flight.
C17_Step ==
    \A s \in Sessions :
        (InFlight(s) /\ geminiWs[s] = "OPEN" /\ Len(clRecv'[s]) > Len(clRecv[s])) =>
            LET i == Len(clRecv'[s]) IN
            /\ Len(upSent'[s]) = Len(upSent[s]) + 1
            /\ upSent'[s][Len(upSent'[s])].type = "client"
            /\ upSent'[s][Len(upSent'[s])].k = i
            /\ upSent'[s][Len(upSent'[s])].body = clRecv'[s][i].body
            /\ submits' = submits

\* C17 (opposite direction not stalled): while a submission is in flight,
\* client frames continue to be forwarded upstream.
C17_NotStalled == []C17_State /\ [][C17_Step]_vars

\* The second call of a ToolCall is in flight, and a client frame went
\* upstream after the response to the first call, that is, during the flight.
C17_Witness ==
    \E s \in Sessions : \E m \in 1..Len(submits[s]) : \E p, q \in 1..Len(upSent[s]) :
        /\ submits[s][m].res = "pending" /\ submits[s][m].j = 2
        /\ upSent[s][p].type = "toolResponse" /\ upSent[s][p].k = submits[s][m].k
        /\ upSent[s][p].j = 1
        /\ p < q /\ upSent[s][q].type = "client"

\* C18 (injection contiguity): on the upstream connection the ToolResponse of
\* a successful call is immediately followed by the ClientTurn of the same
\* call, and every ClientTurn immediately follows the success ToolResponse of
\* its call: no client frame and no message injected for another call is
\* between the two.
C18_Contiguous ==
    \A s \in Sessions : \A i \in 1..Len(upSent[s]) :
        LET x == upSent[s][i] IN
        /\ (x.type = "toolResponse" /\ x.success) =>
              /\ i < Len(upSent[s])
              /\ upSent[s][i + 1].type = "client_content"
              /\ upSent[s][i + 1].k = x.k /\ upSent[s][i + 1].j = x.j
        /\ x.type = "client_content" =>
              /\ i > 1
              /\ upSent[s][i - 1].type = "toolResponse" /\ upSent[s][i - 1].success
              /\ upSent[s][i - 1].k = x.k /\ upSent[s][i - 1].j = x.j

\* Two ToolCalls were in flight at the same time (the one that came second
\* was answered first), a client frame went upstream between their answers.
C18_Witness ==
    \E s \in Sessions : \E a, b, c \in 1..Len(upSent[s]) :
        /\ a < c /\ c < b
        /\ upSent[s][a].type = "toolResponse" /\ upSent[s][a].success /\ upSent[s][a].k = 2
        /\ upSent[s][b].type = "toolResponse" /\ upSent[s][b].success /\ upSent[s][b].k = 1
        /\ upSent[s][c].type = "client"

\* A submission in flight in a running process can always complete, whatever
\* the state of the two connections.
C19_State ==
    \A s \in Sessions : \A k \in 1..Len(handlers[s]) :
        (alive /\ handlers[s][k].pc = "await") =>
            \A r \in SubmitOutcomes(FALSE) : ENABLED SubmitSettles(s, k, r)

\* A step that changes the state of a connection leaves every submission as
\* it is; the step in which a submission completes puts nothing on an
\* upstream connection that is no longer open, delivers nothing to a client
\* connection that is no longer open, and the process keeps running.
C19_Step ==
    \A s \in Sessions :
        /\ (ws'[s] # ws[s] \/ geminiWs'[s] # geminiWs[s]) => submits'[s] = submits[s]
        /\ \A m \in 1..Len(submits[s]) :
              (submits[s][m].res = "pending" /\ submits'[s][m].res # "pending") =>
                  /\ alive'
                  /\ geminiWs[s] # "OPEN" => upSent'[s] = upSent[s]
                  /\ ws[s] # "OPEN" => clSent'[s] = clSent[s]

\* C19 (complete-and-discard): when the connections of a session close while
\* a submission is in flight the invocation is not cancelled; when it
\* completes, no ToolResponse and no ClientTurn is delivered upstream, the
\* ToolCall is not delivered to the client, and the attempted sends are
\* no-ops that raise no error.
C19_CompleteAndDiscard == []C19_State /\ [][C19_Step]_vars

\* A submission that started while the client was connected completed with
\* success after both connections had closed: nothing was injected for it and
\* its ToolCall was not delivered.
C19_Witness ==
    \E s \in Sessions : \E m \in 1..Len(submits[s]) :
        LET sub == submits[s][m] IN
        /\ sub.res = "ok" /\ handlers[s][sub.k].live /\ handlers[s][sub.k].pc = "done"
        /\ sub.j = NextSubmit(upRecv[s][sub.k].calls, 1)
        /\ InjectedFor(s, sub.k, sub.j) = <<>> /\ DeliveriesOf(s, sub.k) = <<>>
        /\ alive /\ ws[s] = "CLOSED" /\ geminiWs[s] = "CLOSED"

\* The client connection of a session exists exactly when its upstream
\* connection exists, and once the upstream connection is closed the client
\* connection is closed or closing.
C20_State ==
    \A s \in Sessions :
        /\ ws[s] = "NONE" <=> geminiWs[s] = "NONE"
        /\ geminiWs[s] = "CLOSED" => ws[s] \in {"CLOSING", "CLOSED"}

\* An upstream connection starts connecting only in the step that accepts the
\* client, it is never replaced, and a connection that is closing or closed
\* never connects or opens again; the same holds for the client connection.
C20_Step ==
    \A s \in Sessions :
        /\ (ws[s] = "NONE" /\ ws'[s] # "NONE") => geminiWs'[s] = "CONNECTING"
        /\ (geminiWs'[s] = "CONNECTING" /\ geminiWs[s] # "CONNECTING") =>
              (geminiWs[s] = "NONE" /\ ws[s] = "NONE")
        /\ geminiWs[s] # "NONE" => geminiWs'[s] # "NONE"
        /\ geminiWs[s] \in {"CLOSING", "CLOSED"} => geminiWs'[s] \in {"CLOSING", "CLOSED"}
        /\ geminiWs[s] = "CLOSED" => geminiWs'[s] = "CLOSED"
        /\ ws[s] \in {"CLOSING", "CLOSED"} => ws'[s] \in {"CLOSING", "CLOSED"}

\* C20 (one upstream connection, no reconnection): for every accepted client
\* connection exactly one upstream connection is created, in the accepting
\* step; after it fails or closes no new upstream connection is created for
\* the session and the session terminates.
C20_OneUpstream == []C20_State /\ [][C20_Step]_vars

\* The upstream connection failed before it ever opened; the client
\* connection is being closed and no other upstream connection exists.
C20_Witness ==
    \E s \in Sessions :
        alive /\ ~opened[s] /\ geminiWs[s] = "CLOSED" /\ ws[s] = "CLOSING"

\* C21 (upstream connect failure): in the step in which an upstream
\* connection that was still connecting fails, the client connection starts
\* closing, no setup message has been sent, and the close frame sent to the
\* client carries an error indication (a status code or a reason) that a
\* normal close does not carry.
C21_ConnectFailure ==
    [][\A s \in Sessions :
          (alive' /\ geminiWs[s] = "CONNECTING" /\ geminiWs'[s] = "CLOSED") =>
              /\ ws'[s] \in {"CLOSING", "CLOSED"}
              /\ upSent'[s] = <<>>
              /\ ws[s] = "OPEN" =>
                    /\ closeSent'[s].sent
                    /\ closeSent'[s].code # "" \/ closeSent'[s].reason # ""]_vars

\* The step of an error on the upstream connection closes that connection
\* and starts the close of the client connection; the step of an error on a
\* client connection leaves no connection of the session open; a connection
\* that is closing or closed never connects or opens again.
C22_Step ==
    \A s \in Sessions :
        /\ (geminiWs[s] \in {"CONNECTING", "OPEN"} /\ geminiWs'[s] = "CLOSED") =>
              ws'[s] \in {"CLOSING", "CLOSED"}
        /\ (alive /\ ~alive') =>
              ws'[s] \in {"NONE", "CLOSED"} /\ geminiWs'[s] \in {"NONE", "CLOSED"}
        /\ geminiWs[s] \in {"CLOSING", "CLOSED"} => geminiWs'[s] \notin {"CONNECTING", "OPEN"}
        /\ ws[s] \in {"CLOSING", "CLOSED"} => ws'[s] # "OPEN"

\* C22 (transport error tears the session down): an error event on either
\* connection of a session leads to both connections of that session being
\* closed, and neither is connected again.
C22_ErrorTearsDown ==
    /\ [][C22_Step]_vars
    /\ \A s \in Sessions :
          (geminiWs[s] = "CLOSED" \/ ~alive) ~> (ws[s] \in {"NONE", "CLOSED"} /\ geminiWs[s] \in {"NONE", "CLOSED"})

\* An error on the client connection of a session that had traffic: both of
\* its connections are closed.
C22_Witness ==
    \E s \in Sessions :
        ~alive /\ opened[s] /\ Len(upSent[s]) > 1 /\ ws[s] = "CLOSED" /\ geminiWs[s] = "CLOSED"

\* Every client frame on the upstream connection has the payload of the
\* client frame it forwards, and every submission and every injected message
\* is for a submit_form call of a frame received from upstream.
C23_State ==
    \A s \in Sessions :
        /\ \A i \in 1..Len(upSent[s]) :
              LET x == upSent[s][i] IN
              /\ x.type = "client" => (x.k \in 1..Len(clRecv[s]) /\ x.body = clRecv[s][x.k].body)
              /\ x.type \in {"toolResponse", "client_content"} =>
                    \E m \in 1..Len(submits[s]) : submits[s][m].k = x.k /\ submits[s][m].j = x.j
        /\ \A m \in 1..Len(submits[s]) :
              /\ submits[s][m].k \in 1..Len(upRecv[s])
              /\ upRecv[s][submits[s][m].k].calls[submits[s][m].j].name = "submit_form"

\* The step that receives a client frame starts no submission, resumes no
\* listener, delivers nothing to the client and puts at most the frame
\* itself, with its payload, on the upstream connection.
C23_Step ==
    \A s \in Sessions :
        Len(clRecv'[s]) > Len(clRecv[s]) =>
            LET i == Len(clRecv'[s]) IN
            /\ UNCHANGED <<submits, handlers, clSent, upRecv>>
            /\ \/ upSent'[s] = upSent[s]
               \/ /\ Len(upSent'[s]) = Len(upSent[s]) + 1
                  /\ SubSeq(upSent'[s], 1, Len(upSent[s])) = upSent[s]
                  /\ upSent'[s][Len(upSent'[s])].type = "client"
                  /\ upSent'[s][Len(upSent'[s])].k = i
                  /\ upSent'[s][Len(upSent'[s])].body = clRecv'[s][i].body

C24_State ==
    \A s \in Sessions : \A a, b \in 1..Len(submits[s]) :
        (submits[s][a].k = submits[s][b].k /\ submits[s][a].j = submits[s][b].j) => a = b

\* The step in which a submission fails starts no invocation but, at most,
\* the one for a later call of the same message.
C24_Step ==
    \A s \in Sessions : \A m \in 1..Len(submits[s]) :
        (submits[s][m].res = "pending" /\ submits'[s][m].res \in Reasons) =>
            /\ Len(submits'[s]) <= Len(submits[s]) + 1
            /\ \A i \in (Len(submits[s]) + 1)..Len(submits'[s]) :
                  submits'[s][i].k = submits[s][m].k /\ submits'[s][i].j > submits[s][m].j

\* C24 (no retries): after formHandler.submit failed for a submit_form call
\* the mediator does not invoke it again for that call; one received function
\* call causes at most one attempt.
C24_NoRetry == []C24_State /\ [][C24_Step]_vars

\* The first call of a message failed and was answered, the second call of
\* the same message was then submitted: two invocations, one for each.
C24_Witness ==
    \E s \in Sessions :
        /\ Len(submits[s]) = 2
        /\ submits[s][1].res \in Reasons /\ submits[s][2].res = "ok"
        /\ submits[s][1].k = submits[s][2].k /\ submits[s][1].j = 1 /\ submits[s][2].j = 2
        /\ handlers[s][submits[s][1].k].pc = "done"
        /\ Len(InjectedFor(s, submits[s][1].k, 1)) = 1

\* The traffic of session s: what it received, sent, submitted, and where
\* its listeners are.
TrafficOf(s) == <<upRecv[s], clRecv[s], upSent[s], clSent[s], submits[s], handlers[s]>>

\* Everything on the connections of a session comes from that session: a
\* frame delivered to its client is a frame received from its upstream, a
\* client frame on its upstream connection is a frame received from its
\* client, and an injected message answers a submission of a call received
\* on its upstream connection, echoing that call's id.
C25_State ==
    \A s \in Sessions :
        /\ \A i \in 1..Len(clSent[s]) :
              /\ clSent[s][i].k \in 1..Len(upRecv[s])
              /\ clSent[s][i].data = upRecv[s][clSent[s][i].k]
        /\ \A i \in 1..Len(upSent[s]) :
              LET x == upSent[s][i] IN
              /\ x.type = "client" => (x.k \in 1..Len(clRecv[s]) /\ x.body = clRecv[s][x.k].body)
              /\ x.type \in {"toolResponse", "client_content"} =>
                    /\ \E m \in 1..Len(submits[s]) :
                          submits[s][m].k = x.k /\ submits[s][m].j = x.j /\ submits[s][m].res # "pending"
                    /\ x.k \in 1..Len(upRecv[s])
                    /\ x.type = "toolResponse" => x.id = upRecv[s][x.k].calls[x.j].id

\* A step in which the traffic of one session changes leaves the traffic and
\* the connections of every other session as they are.
C25_Step ==
    \A a, b \in Sessions :
        (a # b /\ TrafficOf(a)' # TrafficOf(a)) =>
            /\ TrafficOf(b)' = TrafficOf(b)
            /\ ws'[b] = ws[b] /\ geminiWs'[b] = geminiWs[b]
            /\ opened'[b] = opened[b] /\ closeSent'[b] = closeSent[b]

\* C25 (cross-session isolation): with several sessions live at once, a frame
\* received on a connection of session A is forwarded only to A's peer, the
\* messages injected for a tool call received on A's upstream connection are
\* sent only on A's upstream connection, and what the connections of another
\* session B carry does not depend on A's traffic.
C25_Isolation == []C25_State /\ [][C25_Step]_vars

\* Two sessions are open at once: one forwarded a client frame upstream and
\* an upstream frame to its client, the other answered a tool call.
C25_Witness ==
    \E a, b \in Sessions :
        /\ a # b
        /\ ws[a] = "OPEN" /\ geminiWs[a] = "OPEN" /\ ws[b] = "OPEN" /\ geminiWs[b] = "OPEN"
        /\ \E i \in 1..Len(upSent[a]) : upSent[a][i].type = "client"
        /\ clSent[a] # <<>>
        /\ \E i \in 1..Len(upSent[b]) : upSent[b][i].type = "toolResponse"
        /\ \A i \in 1..Len(upSent[b]) : upSent[b][i].type # "client"
        /\ \A i \in 1..Len(upSent[a]) : upSent[a][i].type # "toolResponse"

\* C26 (failure isolation): a step in which something happens in session A
\* (an error event, a close, a frame that fails decoding, a submission that
\* fails) leaves the process running and leaves both connections of another
\* session B, if they are open, open.
C26_FailureIsolation ==
    [][\A a, b \in Sessions :
          (/\ a # b
           /\ ws[b] = "OPEN" /\ geminiWs[b] = "OPEN"
           /\ \/ ws'[a] # ws[a]
              \/ geminiWs'[a] # geminiWs[a]
              \/ TrafficOf(a)' # TrafficOf(a)) =>
              /\ alive'
              /\ ws'[b] = "OPEN" /\ geminiWs'[b] = "OPEN"]_vars

\* C27 (response before delivery): a ToolCall message that the mediator
\* decoded has been forwarded to the client only if every submit_form call in
\* it has been resolved (formHandler.submit returned or failed) and its
\* ToolResponse, with the ClientTurn after a success, has been sent upstream.
C27_ResponseBeforeDelivery ==
    \A s \in Sessions : \A k \in 1..Len(upRecv[s]) :
        LET f == upRecv[s][k] IN
        (f.body = "toolCall" /\ ~IsBuffer(f) /\ DeliveriesOf(s, k) # <<>>) =>
            \A j \in 1..Len(f.calls) :
                f.calls[j].name = "submit_form" =>
                    \E m \in 1..Len(submits[s]) :
                        /\ submits[s][m].k = k /\ submits[s][m].j = j
                        /\ submits[s][m].res # "pending"
                        /\ Len(InjectedFor(s, k, j)) = (IF submits[s][m].res = "ok" THEN 2 ELSE 1)

\* The client frames on an upstream connection are in the order of their
\* receipt, each at most once.
C28_State ==
    \A s \in Sessions :
        LET cp == ClientPart(upSent[s]) IN
        \A a, b \in 1..Len(cp) : a < b => cp[a].k < cp[b].k

\* The step that receives a client frame puts it on the upstream connection
\* exactly when that connection is OPEN; no other step puts a client frame
\* on it.
C28_Step ==
    \A s \in Sessions :
        IF Len(clRecv'[s]) > Len(clRecv[s])
        THEN LET i == Len(clRecv'[s]) IN
             IF geminiWs[s] = "OPEN"
             THEN /\ Len(upSent'[s]) = Len(upSent[s]) + 1
                  /\ SubSeq(upSent'[s], 1, Len(upSent[s])) = upSent[s]
                  /\ upSent'[s][Len(upSent'[s])].type = "client"
                  /\ upSent'[s][Len(upSent'[s])].k = i
             ELSE upSent'[s] = upSent[s]
        ELSE ClientPart(upSent'[s]) = ClientPart(upSent[s])

C29_EveryCallAnswered ==
    \A s \in Sessions : \A k \in 1..Len(upRecv[s]) :
        LET f == upRecv[s][k] IN
        (/\ f.body = "toolCall" /\ ~IsBuffer(f)
         /\ handlers[s][k].pc = "done"
         /\ ws[s] = "OPEN" /\ geminiWs[s] = "OPEN") =>
            \A j \in 1..Len(f.calls) :
                f.calls[j].name = "submit_form" =>
                    Cardinality({i \in 1..Len(upSent[s]) :
                                    /\ upSent[s][i].type = "toolResponse"
                                    /\ upSent[s][i].k = k /\ upSent[s][i].j = j
                                    /\ upSent[s][i].id = f.calls[j].id}) = 1

\* C30 (client page, single connection): whatever the taps on the mic button,
\* at most one WebSocket created by the page is open and at most one
\* AudioRecorder created by the page is capturing at any time, and no
\* WebSocket of the page is open while the page is in the disconnected state
\* (isConnected false, `ws` null).
C30_SingleConnection ==
    /\ Cardinality({i \in 1..Len(sockets) : sockets[i] = "OPEN"}) <= 1
    /\ Cardinality({r \in 1..Len(recorders) : recorders[r] = "capturing"}) <= 1
    /\ (~isConnected /\ pageWs = 0) => \A i \in 1..Len(sockets) : sockets[i] # "OPEN"

\* C31 (client page, stop means stop): once disconnect() has run and the page
\* is in the disconnected state (isConnected false, `recorder` null), no
\* AudioRecorder of the page is capturing, also when disconnect() ran while
\* getUserMedia of the recorder was still pending; the audio callback never
\* runs with `ws` null; and a run of the audio callback that sends a frame is
\* a run of the page's current recorder, never of one disconnect() dropped.
C31_StopMeansStop ==
    /\ []((~isConnected /\ pageRecorder = 0) =>
            \A r \in 1..Len(recorders) : recorders[r] # "capturing")
    /\ [](\A i \in 1..Len(audioLog) : audioLog[i].ws # 0)
    /\ [][(Len(audioLog') > Len(audioLog)
           /\ audioLog'[Len(audioLog')].outcome = "sent") =>
              audioLog'[Len(audioLog')].recorder = pageRecorder]_vars

====
